---------------------------- MODULE Spec2Model ----------------------------
(***************************************************************************)
(* Model of the EEG recording inventory scripts:                           *)
(*   clip_creator.py       get_valid_directories (Scanner),                *)
(*                         get_valid_files_info  (Extractor)               *)
(*   src/file_selector.py  copy_selecetd_files   (Copier),                 *)
(*                         the __main__ block    (Sampler)                 *)
(* Each program is a specification of its own (SpecSampler, SpecExtractor, *)
(* SpecScanner, SpecCopier); the variables of the other programs rest.     *)
(*                                                                         *)
(* Strings the code takes apart (paths, file names) are sequences of       *)
(* one-character strings, so that replace(), Path.parts and the string     *)
(* order of np.unique are computed, not assumed.                           *)
(***************************************************************************)
EXTENDS Integers, Sequences, FiniteSets, TLC

VARIABLES
    \* ---- Sampler (src/file_selector.py, __main__)
    manifest_exists,   \* USB_Stick_files_info.csv is a file
    files_info_df,     \* the manifest's rows, in file order
    pats_todo,         \* the part of pats_ls the for loop has not visited yet
    clae_files_df,     \* the selected rows accumulated so far
    random_pat_files,  \* USB_Stick_random_pat_files.csv: [exists, rows]
    s_pc,              \* "start" | "loop" | "saved" | "crashed"
    \* ---- Extractor (clip_creator.py, get_valid_files_info)
    dir_files,         \* the files directly inside data_path, in sorted order
    e_todo,            \* the part of files_to_copy_sorted not visited yet
    files_info,        \* the rows appended to the files_info dictionary
    e_ret,             \* the returned table: [returned, rows]
    e_pc,              \* "start" | "loop" | "done"
    \* ---- Scanner (clip_creator.py, get_valid_directories)
    media,             \* the .trc files under the root: parent directory, codec
    cache,             \* USB_Stick_valid_directories.csv: [exists, rows]
    valid_dirs_df,     \* what the last call returned: [kind, rows]
    codec_opens,       \* MicromedTRC(...) calls made so far
    n_globs,           \* directory enumerations made so far
    n_calls,           \* calls of get_valid_directories made so far
    \* ---- Copier (src/file_selector.py, copy_selecetd_files)
    src_files,         \* the files under data_path: [parts, codec, sfreq]
    data_out_path,     \* the output directory, as path parts
    out_dirs,          \* directories that exist on the output side
    out_files,         \* files on the output side: [path, src, complete]
    c_todo,            \* files of the second loop's list not visited yet
    c_cur,             \* [src, dest] of the copyfile call under way, or <<>>
    nr_valid_files,    \* the first pass's count
    processed_files_nr,
    c_run,             \* number of the run of the Copier
    n_kills,           \* runs that were interrupted so far
    c_pc               \* "start" | "pass2" | "copying" | "done" | "killed"

samplerVars == <<manifest_exists, files_info_df, pats_todo, clae_files_df,
                 random_pat_files, s_pc>>

extractorVars == <<dir_files, e_todo, files_info, e_ret, e_pc>>

scannerVars == <<media, cache, valid_dirs_df, codec_opens, n_globs, n_calls>>

copierVars == <<src_files, data_out_path, out_dirs, out_files, c_todo, c_cur,
                nr_valid_files, processed_files_nr, c_run, n_kills, c_pc>>

vars == <<samplerVars, extractorVars, scannerVars, copierVars>>

\* The variables each program leaves alone.
nonSamplerVars   == <<extractorVars, scannerVars, copierVars>>
nonExtractorVars == <<samplerVars, scannerVars, copierVars>>
nonScannerVars   == <<samplerVars, extractorVars, copierVars>>
nonCopierVars    == <<samplerVars, extractorVars, scannerVars>>

(***************************************************************************)
(* Strings                                                                 *)
(***************************************************************************)

\* Code point of a character, the order np.unique / np.sort use on strings.
CharCode(c) ==
    CASE c = " " -> 32
      [] c = "-" -> 45
      [] c = "." -> 46
      [] c = "/" -> 47
      [] c = "1" -> 49
      [] c = "2" -> 50
      [] c = ":" -> 58
      [] c = "D" -> 68
      [] c = "E" -> 69
      [] c = "O" -> 79
      [] c = "P" -> 80
      [] c = "_" -> 95
      [] c = "a" -> 97
      [] c = "b" -> 98
      [] c = "c" -> 99
      [] c = "d" -> 100
      [] OTHER -> 120

RECURSIVE StrLess(_, _)
\* s < t for Python strings: lexicographic by code point.
StrLess(s, t) ==
    IF t = <<>> THEN FALSE
    ELSE IF s = <<>> THEN TRUE
    ELSE IF Head(s) = Head(t) THEN StrLess(Tail(s), Tail(t))
    ELSE CharCode(Head(s)) < CharCode(Head(t))

\* str.replace(old, new) for one-character old and new.
StrReplace(s, old, new) ==
    [i \in 1..Len(s) |-> IF s[i] = old THEN new ELSE s[i]]

\* os.sep of the platform the Sampler runs on.
OsSep == "/"

RECURSIVE SortedSeq(_)
\* The elements of a finite set of strings as an ascending sequence.
SortedSeq(S) ==
    IF S = {} THEN <<>>
    ELSE LET m == CHOOSE x \in S : \A y \in S \ {x} : StrLess(x, y)
         IN  <<m>> \o SortedSeq(S \ {m})

RECURSIVE PartsLess(_, _)
\* p < q for Path objects: the parts compared in order, each as a string.
PartsLess(p, q) ==
    IF q = <<>> THEN FALSE
    ELSE IF p = <<>> THEN TRUE
    ELSE IF Head(p) = Head(q) THEN PartsLess(Tail(p), Tail(q))
    ELSE StrLess(Head(p), Head(q))

RECURSIVE SortedPaths(_)
\* The elements of a finite set of paths as an ascending sequence.
SortedPaths(S) ==
    IF S = {} THEN <<>>
    ELSE LET m == CHOOSE x \in S : \A y \in S \ {x} : PartsLess(x, y)
         IN  <<m>> \o SortedPaths(S \ {m})

RECURSIVE PathStr(_)
\* str(path): the parts joined by the separator.
PathStr(p) ==
    IF p = <<>> THEN <<>>
    ELSE IF Len(p) = 1 THEN p[1]
    ELSE p[1] \o <<OsSep>> \o PathStr(Tail(p))

\* np.unique on an array of strings: the distinct values, sorted.
NpUnique(arr) == SortedSeq({arr[i] : i \in 1..Len(arr)})

(***************************************************************************)
(* Sampler: src/file_selector.py, __main__                                 *)
(***************************************************************************)

\* Bound: rows in the manifest.
MaxRows == 3

\* Directory values of the manifest: "a/b-c" and "a-b/c" are two directories
\* ("b-c" inside "a", "c" inside "a-b"); "a/d" is a third.
Directories ==
    { <<"a", "/", "b", "-", "c">>,
      <<"a", "-", "b", "/", "c">>,
      <<"a", "/", "d">> }

\* Day offsets a manifest row may carry: below, at and above day 3.
Days == {1, 3, 5}

\* duration_h values: at the threshold (not > 4) and above it.
Durations == {4, 5}

RowCores == [directory : Directories, day : Days, duration_h : Durations]

\* A manifest of rows: row i is file number i (the filename column tells rows
\* apart).
ManifestOf(f) ==
    [i \in 1..Len(f) |-> [directory  |-> f[i].directory,
                          day        |-> f[i].day,
                          duration_h |-> f[i].duration_h,
                          filename   |-> i]]

\* files_info_df.directory.str.replace(os.sep, '-'), one value.
DirKey(directory) == StrReplace(directory, OsSep, "-")

\* dir_ls: the key of every row, in row order.
DirLs(df) == [i \in 1..Len(df) |-> DirKey(df[i].directory)]

\* files_info_df[pat_sel]: the rows whose key equals pat_dir.
PatFilesInfo(df, pat_dir) ==
    SelectSeq(df, LAMBDA r : DirKey(r.directory) = pat_dir)

SeqMax(df) == CHOOSE m \in {df[i].day : i \in 1..Len(df)} :
                  \A i \in 1..Len(df) : df[i].day <= m

\* Mutant: the day is never lowered to the group's maximum.
DayToSelectAlways3(pat_files_info) == 3

\* day_to_select: 3, lowered to the group's maximum day when that is below 3.
DayToSelect(pat_files_info) ==
    IF SeqMax(pat_files_info) < 3 THEN SeqMax(pat_files_info) ELSE 3

\* files_sel: day == day_to_select and duration_h > 4.
SelectedDayFiles(pat_files_info) ==
    SelectSeq(pat_files_info,
              LAMBDA r : r.day = DayToSelect(pat_files_info) /\ r.duration_h > 4)

\* Position (0-based) DataFrame.sample(n=1, random_state=42) draws from n rows:
\* RandomState(42).permutation(n)[0], the Mersenne Twister seeded with 42.
SampleIndex(n) ==
    CASE n = 2 -> 1
      [] n = 3 -> 0
      [] n = 4 -> 1
      [] n = 5 -> 1
      [] n = 6 -> 0
      [] OTHER -> 0

\* random_pat_file_info: the one row kept of a non-empty candidate table.
RandomPatFileInfo(cands) ==
    IF Len(cands) > 1 THEN <<cands[SampleIndex(Len(cands)) + 1]>> ELSE cands

SamplerInit ==
    /\ manifest_exists \in BOOLEAN
    /\ IF manifest_exists
       THEN \E n \in 0..MaxRows : \E f \in [1..n -> RowCores] :
                files_info_df = ManifestOf(f)
       ELSE files_info_df = <<>>
    /\ pats_todo = <<>>
    /\ clae_files_df = <<>>
    /\ random_pat_files = [exists |-> FALSE, rows |-> <<>>]
    /\ s_pc = "start"

\* The Sampler's variables while another program runs.
SamplerIdle ==
    /\ manifest_exists = FALSE
    /\ files_info_df = <<>>
    /\ pats_todo = <<>>
    /\ clae_files_df = <<>>
    /\ random_pat_files = [exists |-> FALSE, rows |-> <<>>]
    /\ s_pc = "idle"

\* Lines 78-85: the manifest is read, the keys are built and made unique.
SamplerLoad ==
    /\ s_pc = "start"
    /\ manifest_exists
    /\ pats_todo' = NpUnique(DirLs(files_info_df))
    /\ clae_files_df' = <<>>
    /\ s_pc' = "loop"
    /\ UNCHANGED <<manifest_exists, files_info_df, random_pat_files>>
    /\ UNCHANGED nonSamplerVars

\* Lines 117-121 without a manifest: clae_files_df was never bound, to_csv
\* raises NameError and nothing is written.
SamplerNoManifest ==
    /\ s_pc = "start"
    /\ ~manifest_exists
    /\ s_pc' = "crashed"
    /\ UNCHANGED <<manifest_exists, files_info_df, pats_todo, clae_files_df,
                   random_pat_files>>
    /\ UNCHANGED nonSamplerVars

\* Lines 88-115: one pass of the for loop over pats_ls.
SamplerStep ==
    /\ s_pc = "loop"
    /\ pats_todo # <<>>
    /\ LET pat_dir == Head(pats_todo)
           pat_files_info == PatFilesInfo(files_info_df, pat_dir)
           cands == SelectedDayFiles(pat_files_info)
       IN  clae_files_df' = IF Len(cands) > 0
                            THEN clae_files_df \o RandomPatFileInfo(cands)
                            ELSE clae_files_df
    /\ pats_todo' = Tail(pats_todo)
    /\ UNCHANGED <<manifest_exists, files_info_df, random_pat_files, s_pc>>
    /\ UNCHANGED nonSamplerVars

\* Lines 120-121: the selected rows are written.
SamplerSave ==
    /\ s_pc = "loop"
    /\ pats_todo = <<>>
    /\ random_pat_files' = [exists |-> TRUE, rows |-> clae_files_df]
    /\ s_pc' = "saved"
    /\ UNCHANGED <<manifest_exists, files_info_df, pats_todo, clae_files_df>>
    /\ UNCHANGED nonSamplerVars

SamplerNext ==
    \/ SamplerLoad
    \/ SamplerNoManifest
    \/ SamplerStep
    \/ SamplerSave

(***************************************************************************)
(* Extractor: clip_creator.py, get_valid_files_info                        *)
(***************************************************************************)

\* Bound: files directly inside the directory.
MaxFiles == 3

\* Recording timestamps, in hours since midnight of the first of the month:
\* the 1st at 01:00 and 23:00, the 2nd at 01:00 and 23:00.
Timestamps == {1, 23, 25, 47}

\* Sampling frequencies: at the threshold and above it.
Sfreqs == {1000, 2000}

\* What the codec does with a file: MicromedTRC(path) raises ("openfail"),
\* the header reads but get_data raises ("datafail"), or all reads succeed.
Codecs == {"openfail", "datafail", "ok"}

\* A file: its extension and what the codec reads from it.  Fields the code
\* never reaches (of a file that is no .trc, that cannot be opened, that is
\* skipped for its rate) are held at one value.
FileInfos ==
    { f \in [ext : {".trc", ".txt"}, codec : Codecs, sfreq : Sfreqs,
             ts : Timestamps] :
        /\ (f.ext = ".txt") => (f.codec = "ok" /\ f.sfreq = 2000)
        /\ (f.codec = "openfail") => (f.sfreq = 2000)
        /\ (f.sfreq = 1000) => (f.codec = "ok")
        /\ (f.ext = ".txt" \/ f.codec # "ok" \/ f.sfreq = 1000) => (f.ts = 1) }

\* Mutant: the threshold test lets 1000 Hz through.
SfreqValidGe(sfreq) == sfreq >= 1000

\* if sfreq > 1000
SfreqValid(sfreq) == sfreq > 1000

\* data_path.glob("*.trc"), sorted: the numbers of the .trc files, ascending
\* (file i sorts before file j when i < j).
GlobTrc(files) ==
    LET S == {i \in 1..Len(files) : files[i].ext = ".trc"}
        RECURSIVE Asc(_, _)
        Asc(i, acc) == IF i > Len(files) THEN acc
                       ELSE Asc(i + 1, IF i \in S THEN Append(acc, i) ELSE acc)
    IN  Asc(1, <<>>)

\* Timedelta.days of (a - b) for a >= b: whole 24-hour periods elapsed.
TimedeltaDays(a, b) == (a - b) \div 24

\* datetime.day: the day of the month.
DayOfMonth(ts) == (ts \div 24) + 1

SeqMin(rows) == CHOOSE m \in {rows[i].recording_date : i \in 1..Len(rows)} :
                    \A i \in 1..Len(rows) : m <= rows[i].recording_date

\* sort_values('recording_date'): the orders of the rows that ascend by
\* timestamp (the default sort is not stable: rows of equal timestamp may
\* come out in any order).
SortedByDate(rows) ==
    { [i \in 1..Len(rows) |-> rows[p[i]]] :
        p \in { q \in [1..Len(rows) -> 1..Len(rows)] :
                  /\ \A a, b \in 1..Len(rows) : a # b => q[a] # q[b]
                  /\ \A a, b \in 1..Len(rows) :
                         a < b => rows[q[a]].recording_date
                                      <= rows[q[b]].recording_date } }

\* Lines 119-121: day = (recording_date - earliest_date).days for every row.
WithDay(rows) ==
    [i \in 1..Len(rows) |->
        [rows[i] EXCEPT !.day = TimedeltaDays(rows[i].recording_date, SeqMin(rows))]]

ExtractorInit ==
    /\ \E n \in 0..MaxFiles : dir_files \in [1..n -> FileInfos]
    /\ e_todo = <<>>
    /\ files_info = <<>>
    /\ e_ret = [returned |-> FALSE, rows |-> <<>>]
    /\ e_pc = "start"

ExtractorIdle ==
    /\ dir_files = <<>>
    /\ e_todo = <<>>
    /\ files_info = <<>>
    /\ e_ret = [returned |-> FALSE, rows |-> <<>>]
    /\ e_pc = "idle"

\* Lines 55-71: the accumulator is emptied, the directory is listed and sorted.
ExtractorStart ==
    /\ e_pc = "start"
    /\ e_todo' = GlobTrc(dir_files)
    /\ files_info' = <<>>
    /\ e_pc' = "loop"
    /\ UNCHANGED <<dir_files, e_ret>>
    /\ UNCHANGED nonExtractorVars

\* Lines 73-109: one pass of the for loop.  An exception of the open or of a
\* read, and a rate that is not above the threshold, both go on to the next
\* file; only a file read in full appends a row.
ExtractorStep ==
    /\ e_pc = "loop"
    /\ e_todo # <<>>
    /\ LET i == Head(e_todo)
           f == dir_files[i]
       IN  files_info' =
               IF f.codec = "openfail" THEN files_info
               ELSE IF ~SfreqValid(f.sfreq) THEN files_info
               ELSE IF f.codec = "datafail" THEN files_info
               ELSE Append(files_info,
                           [filename           |-> i,
                            recording_date     |-> f.ts,
                            sampling_frequency |-> f.sfreq,
                            day                |-> DayOfMonth(f.ts)])
    /\ e_todo' = Tail(e_todo)
    /\ UNCHANGED <<dir_files, e_ret, e_pc>>
    /\ UNCHANGED nonExtractorVars

\* Lines 111-123: the table is built, sorted by timestamp, the day column is
\* recomputed and the table is returned.
ExtractorFinish ==
    /\ e_pc = "loop"
    /\ e_todo = <<>>
    /\ \E sorted \in SortedByDate(files_info) :
           e_ret' = [returned |-> TRUE,
                     rows |-> IF sorted = <<>> THEN <<>> ELSE WithDay(sorted)]
    /\ e_pc' = "done"
    /\ UNCHANGED <<dir_files, e_todo, files_info>>
    /\ UNCHANGED nonExtractorVars

ExtractorNext ==
    \/ ExtractorStart
    \/ ExtractorStep
    \/ ExtractorFinish

(***************************************************************************)
(* Scanner: clip_creator.py, get_valid_directories                         *)
(***************************************************************************)

\* Bound: .trc files under the root.
MaxScanFiles == 2

\* Bound: calls of get_valid_directories in one history.
MaxCalls == 3

\* data_path of __main__: Path("E:/").
ScanRoot == << <<"E", ":">> >>

\* Directories under the root that hold recordings: the root itself, E:/a
\* and E:/a/b.
ScanDirs == { ScanRoot, ScanRoot \o << <<"a">> >>, ScanRoot \o << <<"a">>, <<"b">> >> }

\* A recording file of the media: where it is and what the codec reads.
ScanFiles ==
    { f \in [parent : ScanDirs, codec : {"openfail", "ok"}, sfreq : Sfreqs] :
        (f.codec = "openfail") => (f.sfreq = 2000) }

\* Strings pandas.read_csv reads as a missing value, not as text.
NaStrings == { <<>>, <<"N", "A">>, <<"n", "a", "n">>, <<"N", "a", "N">> }

\* One cell of pd.read_csv: the text, or NaN for a missing-value string.
ReadCell(text) == IF text \in NaStrings THEN <<"NaN">> ELSE text

\* pd.read_csv(file_out_path): the column, cell by cell.
ReadCsv(file) == [i \in 1..Len(file.rows) |-> ReadCell(file.rows[i])]

\* DataFrame.to_csv(file_out_path, index=False): every Path written as str.
ToCsv(paths) == [exists |-> TRUE, rows |-> [i \in 1..Len(paths) |-> PathStr(paths[i])]]

\* Lines 32-43: the parents of the files that open and sample above 1000 Hz,
\* made unique and sorted.
ValidDirectoriesLs(files) ==
    SortedPaths({ files[i].parent : i \in { j \in 1..Len(files) :
                        files[j].codec = "ok" /\ SfreqValid(files[j].sfreq) } })

\* Mutant: the cache file is never found.
CacheIsFileNever(file) == FALSE

\* file_out_path.is_file()
CacheIsFile(file) == file.exists

\* Cache files an earlier session may have left: lists of directories, as
\* written by to_csv.
OldCaches == { ToCsv(SortedPaths(S)) : S \in SUBSET ScanDirs }

ScannerInit ==
    /\ \E n \in 0..MaxScanFiles : media \in [1..n -> ScanFiles]
    /\ cache \in {[exists |-> FALSE, rows |-> <<>>]} \cup OldCaches
    /\ valid_dirs_df = [kind |-> "none", rows |-> <<>>]
    /\ codec_opens = 0
    /\ n_globs = 0
    /\ n_calls = 0

ScannerIdle ==
    /\ media = <<>>
    /\ cache = [exists |-> FALSE, rows |-> <<>>]
    /\ valid_dirs_df = [kind |-> "none", rows |-> <<>>]
    /\ codec_opens = 0
    /\ n_globs = 0
    /\ n_calls = 0

\* Lines 21-50, one call.  With the cache file present it is read and
\* returned; without it every .trc file under the root is opened, the valid
\* directories are written to the cache file and returned.
GetValidDirectories ==
    /\ n_calls < MaxCalls
    /\ n_calls' = n_calls + 1
    /\ IF CacheIsFile(cache)
       THEN /\ valid_dirs_df' = [kind |-> "strings", rows |-> ReadCsv(cache)]
            /\ UNCHANGED <<cache, codec_opens, n_globs>>
       ELSE /\ n_globs' = n_globs + 1
            /\ codec_opens' = codec_opens + Len(media)
            /\ cache' = ToCsv(ValidDirectoriesLs(media))
            /\ valid_dirs_df' = [kind |-> "paths", rows |-> ValidDirectoriesLs(media)]
    /\ UNCHANGED media
    /\ UNCHANGED nonScannerVars

\* The user deletes the cache file between two runs.
CacheDelete ==
    /\ cache.exists
    /\ cache' = [exists |-> FALSE, rows |-> <<>>]
    /\ UNCHANGED <<media, valid_dirs_df, codec_opens, n_globs, n_calls>>
    /\ UNCHANGED nonScannerVars

ScannerNext ==
    \/ GetValidDirectories
    \/ CacheDelete

(***************************************************************************)
(* Copier: src/file_selector.py, copy_selecetd_files                       *)
(***************************************************************************)

\* Bound: files under the root.
MaxSrcFiles == 2

\* Bound: runs of the Copier in one history.
MaxRuns == 2

\* data_path of __main__: Path("D:/").
CopyRoot == << <<"D", ":">> >>

\* Paths under the root, as Path.parts.  A file name ends in its extension,
\* one element of the name.
\*   D:/a.trc   D:/P/a.trc   D:/a/P/a.trc   D:/a/P 1/a.trc   D:/a/P_1/a.trc
\*   D:/a/b/P/a.trc   D:/a/P/a.txt
SourcePaths ==
    { CopyRoot \o << <<"a", ".trc">> >>,
      CopyRoot \o << <<"P">>, <<"a", ".trc">> >>,
      CopyRoot \o << <<"a">>, <<"P">>, <<"a", ".trc">> >>,
      CopyRoot \o << <<"a">>, <<"P", " ", "1">>, <<"a", ".trc">> >>,
      CopyRoot \o << <<"a">>, <<"P", "_", "1">>, <<"a", ".trc">> >>,
      CopyRoot \o << <<"a">>, <<"b">>, <<"P">>, <<"a", ".trc">> >>,
      CopyRoot \o << <<"a">>, <<"P">>, <<"a", ".txt">> >> }

\* Output directories: "O" and "O 2", both inside the working directory.
OutPaths == { << <<"O">> >>, << <<"O", " ", "2">> >> }

\* What the codec reads from a source file.
SourceCodecs ==
    { k \in [codec : Codecs, sfreq : Sfreqs] :
        /\ (k.codec = "openfail") => (k.sfreq = 2000)
        /\ (k.sfreq = 1000) => (k.codec = "ok") }

\* A file tree: the files at the paths P, read by the codec as k says.
SourceTree(P, k) == { [parts |-> q, codec |-> k[q].codec, sfreq |-> k[q].sfreq] : q \in P }

\* data_path.glob("**/*.trc"): the files whose name ends in .trc, at any depth.
GlobAllTrc(files) == { f \in files : f.parts[Len(f.parts)][Len(f.parts[Len(f.parts)])] = ".trc" }

\* path.parts[-n]
PartFromEnd(parts, n) == parts[Len(parts) - n + 1]

\* Lines 44-46: parts[-2], parts[-1] and parts[-4] are read; a path of fewer
\* than four parts raises IndexError.
PartsReadable(parts) == Len(parts) >= 4

\* new_fn = f"{subj_name}_{fname}"
NewFn(parts) == PartFromEnd(parts, 2) \o <<"_">> \o PartFromEnd(parts, 1)

\* Lines 57-58: data_out_path / new_fn, then every space of the whole path
\* string replaced by an underscore.
NewFpath(out, parts) ==
    LET joined == out \o <<NewFn(parts)>>
    IN  [i \in 1..Len(joined) |-> StrReplace(joined[i], " ", "_")]

\* Mutant: the destination is never found to exist.
DestIsFileNever(files, path) == FALSE

\* os.path.isfile(new_fpath)
DestIsFile(files, path) == \E o \in files : o.path = path

\* The directory a path is in.
ParentOf(path) == SubSeq(path, 1, Len(path) - 1)

\* The first pass's count (lines 14-36): files that open, sample above
\* 1000 Hz and whose first channel reads.
NrValidFiles(files) ==
    Cardinality({ f \in GlobAllTrc(files) : f.codec = "ok" /\ SfreqValid(f.sfreq) })

CopierInit ==
    /\ \E P \in { Q \in SUBSET SourcePaths : Cardinality(Q) <= MaxSrcFiles } :
           \E k \in [P -> SourceCodecs] : src_files = SourceTree(P, k)
    /\ data_out_path \in OutPaths
    /\ out_dirs = {}
    /\ out_files = {}
    /\ c_todo = {}
    /\ c_cur = <<>>
    /\ nr_valid_files = 0
    /\ processed_files_nr = 0
    /\ c_run = 1
    /\ n_kills = 0
    /\ c_pc = "start"

CopierIdle ==
    /\ src_files = {}
    /\ data_out_path = <<>>
    /\ out_dirs = {}
    /\ out_files = {}
    /\ c_todo = {}
    /\ c_cur = <<>>
    /\ nr_valid_files = 0
    /\ processed_files_nr = 0
    /\ c_run = 0
    /\ n_kills = 0
    /\ c_pc = "idle"

\* Lines 14-41: the first pass counts the valid files, the tree is listed
\* again for the second loop.
CopierPass1 ==
    /\ c_pc = "start"
    /\ nr_valid_files' = NrValidFiles(src_files)
    /\ processed_files_nr' = 0
    /\ c_todo' = GlobAllTrc(src_files)
    /\ c_pc' = "pass2"
    /\ UNCHANGED <<src_files, data_out_path, out_dirs, out_files, c_cur, c_run, n_kills>>
    /\ UNCHANGED nonCopierVars

\* Lines 42-60: one pass of the second loop, up to the copyfile call.  The
\* list is in the order glob yields, which the code does not sort: any file
\* not yet visited may be next.  An exception (IndexError of the parts, the
\* codec's, copyfile's for a missing destination directory) goes on to the
\* next file; so does a rate that is not above the threshold.
CopierVisit ==
    /\ c_pc = "pass2"
    /\ \E f \in c_todo :
        /\ c_todo' = c_todo \ {f}
        /\ IF ~PartsReadable(f.parts) \/ f.codec = "openfail" \/ ~SfreqValid(f.sfreq)
           THEN UNCHANGED <<out_dirs, out_files, c_cur, processed_files_nr, c_pc>>
           ELSE LET new_fpath == NewFpath(data_out_path, f.parts)
                IN  /\ out_dirs' = out_dirs \cup {data_out_path}
                    /\ IF DestIsFile(out_files, new_fpath)
                       THEN \* line 62: counted, nothing copied
                            /\ processed_files_nr' = processed_files_nr + 1
                            /\ UNCHANGED <<out_files, c_cur, c_pc>>
                       ELSE IF ParentOf(new_fpath) \notin out_dirs'
                       THEN \* copyfile raises: no such directory
                            UNCHANGED <<out_files, c_cur, processed_files_nr, c_pc>>
                       ELSE \* copyfile creates the destination and starts writing
                            /\ out_files' = out_files \cup
                                   {[path |-> new_fpath, src |-> f.parts, complete |-> FALSE]}
                            /\ c_cur' = [src |-> f.parts, dest |-> new_fpath]
                            /\ c_pc' = "copying"
                            /\ UNCHANGED processed_files_nr
    /\ UNCHANGED <<src_files, data_out_path, nr_valid_files, c_run, n_kills>>
    /\ UNCHANGED nonCopierVars

\* Lines 60-63: copyfile writes the last byte and returns; the file is
\* counted.  (With nr_valid_files = 0 the progress line divides by zero; the
\* handler takes it and the loop goes on.)
CopierCopyEnd ==
    /\ c_pc = "copying"
    /\ out_files' = { IF o.path = c_cur.dest
                      THEN [path |-> o.path, src |-> c_cur.src, complete |-> TRUE]
                      ELSE o : o \in out_files }
    /\ processed_files_nr' = processed_files_nr + 1
    /\ c_cur' = <<>>
    /\ c_pc' = "pass2"
    /\ UNCHANGED <<src_files, data_out_path, out_dirs, c_todo, nr_valid_files,
                   c_run, n_kills>>
    /\ UNCHANGED nonCopierVars

\* Line 68: the list is exhausted and the function returns.
CopierReturn ==
    /\ c_pc = "pass2"
    /\ c_todo = {}
    /\ c_pc' = "done"
    /\ UNCHANGED <<src_files, data_out_path, out_dirs, out_files, c_todo, c_cur,
                   nr_valid_files, processed_files_nr, c_run, n_kills>>
    /\ UNCHANGED nonCopierVars

\* The process is killed (power loss, the media pulled): its locals are gone,
\* the files on disk stay as they are, a destination under way stays partial.
CopierKill ==
    /\ c_pc \in {"start", "pass2", "copying"}
    /\ c_pc' = "killed"
    /\ n_kills' = n_kills + 1
    /\ c_todo' = {}
    /\ c_cur' = <<>>
    /\ nr_valid_files' = 0
    /\ processed_files_nr' = 0
    /\ UNCHANGED <<src_files, data_out_path, out_dirs, out_files, c_run>>
    /\ UNCHANGED nonCopierVars

\* The Copier is run again on the same root and output directory.
CopierRerun ==
    /\ c_pc \in {"done", "killed"}
    /\ c_run < MaxRuns
    /\ c_run' = c_run + 1
    /\ c_pc' = "start"
    /\ c_todo' = {}
    /\ c_cur' = <<>>
    /\ nr_valid_files' = 0
    /\ processed_files_nr' = 0
    /\ UNCHANGED <<src_files, data_out_path, out_dirs, out_files, n_kills>>
    /\ UNCHANGED nonCopierVars

CopierNext ==
    \/ CopierPass1
    \/ CopierVisit
    \/ CopierCopyEnd
    \/ CopierReturn
    \/ CopierKill
    \/ CopierRerun

InitSampler == SamplerInit /\ ExtractorIdle /\ ScannerIdle /\ CopierIdle

SpecSampler == InitSampler /\ [][SamplerNext]_vars

InitExtractor == ExtractorInit /\ SamplerIdle /\ ScannerIdle /\ CopierIdle

SpecExtractor == InitExtractor /\ [][ExtractorNext]_vars

InitScanner == ScannerInit /\ SamplerIdle /\ ExtractorIdle /\ CopierIdle

SpecScanner == InitScanner /\ [][ScannerNext]_vars

InitCopier == CopierInit /\ SamplerIdle /\ ExtractorIdle /\ ScannerIdle

SpecCopier == InitCopier /\ [][CopierNext]_vars

\* Any one of the four programs.
Init == InitSampler \/ InitExtractor \/ InitScanner \/ InitCopier

Next == SamplerNext \/ ExtractorNext \/ ScannerNext \/ CopierNext

Spec == Init /\ [][Next]_vars

(***************************************************************************)
(* Sampler claims                                                          *)
(***************************************************************************)

\* Row numbers of the manifest whose directory key is k.
GroupOf(k) == {i \in 1..Len(files_info_df) : DirKey(files_info_df[i].directory) = k}

ManifestKeys == {DirKey(files_info_df[i].directory) : i \in 1..Len(files_info_df)}

MaxDayOf(G) == CHOOSE m \in {files_info_df[i].day : i \in G} :
                   \A i \in G : files_info_df[i].day <= m

\* Rows of G recorded on day d that last more than 4 hours.
LongRowsOn(G, d) ==
    {i \in G : files_info_df[i].day = d /\ files_info_df[i].duration_h > 4}

\* Row numbers (filename column) the written selection holds from G.
SelectedFrom(G) ==
    {j \in 1..Len(random_pat_files.rows) : random_pat_files.rows[j].filename \in G}

C6_FallbackToLatestDay ==
    s_pc = "saved" =>
        \A k \in ManifestKeys :
            LET G == GroupOf(k)
            IN  (LongRowsOn(G, 3) = {} /\ LongRowsOn(G, MaxDayOf(G)) # {}) =>
                    \E j \in SelectedFrom(G) :
                        random_pat_files.rows[j].day = MaxDayOf(G)

\* C9: while the loop runs, the rows of every group still to be visited all
\* carry one directory value, and rows of one directory are in one group:
\* the key never merges two distinct directories.
C9_GroupingExact ==
    s_pc = "loop" =>
        \A n \in 1..Len(pats_todo) :
            LET grp == PatFilesInfo(files_info_df, pats_todo[n])
            IN  \A a, b \in 1..Len(grp) : grp[a].directory = grp[b].directory


(***************************************************************************)
(* Extractor claims                                                        *)
(***************************************************************************)

\* The calendar date (days since the first of the month) of a timestamp.
DateOf(ts) == ts \div 24

\* C2: in the returned table, every row's day is the number of calendar days
\* between the row's recording date and the earliest recording date of the
\* table.
C2_CalendarDayOffset ==
    e_pc = "done" =>
        \A i \in 1..Len(e_ret.rows) :
            e_ret.rows[i].day =
                DateOf(e_ret.rows[i].recording_date) - DateOf(SeqMin(e_ret.rows))

\* Files of the directory that are .trc, open and read in full, above 1000 Hz.
QualifyingFiles ==
    {i \in 1..Len(dir_files) :
        /\ dir_files[i].ext = ".trc"
        /\ dir_files[i].codec = "ok"
        /\ dir_files[i].sfreq > 1000}

DirectoryTexts(df) ==
    [i \in 1..Len(df.rows) |->
        IF df.kind = "paths" THEN PathStr(df.rows[i]) ELSE df.rows[i]]

\* C5: a call made while the cache file exists returns the file's rows as
\* they stand, enumerates nothing, opens no file with the codec and leaves
\* the cache file as it is; and when an earlier call has run, it returns the
\* same directories as that call.
C5_CachedCallIsPureRead ==
    [][ (n_calls' = n_calls + 1 /\ cache.exists) =>
            /\ valid_dirs_df'.rows = cache.rows
            /\ cache' = cache
            /\ codec_opens' = codec_opens
            /\ n_globs' = n_globs
            /\ (n_calls > 0 =>
                    DirectoryTexts(valid_dirs_df') = DirectoryTexts(valid_dirs_df))
      ]_vars

\* C5 witness: a first call scanned the media (two files opened) and wrote a
\* cache of two directories; a second call has returned them from the cache.
C5_Witness ==
    /\ n_calls = 2
    /\ n_globs = 1
    /\ codec_opens = 2
    /\ cache.exists
    /\ Len(cache.rows) = 2
    /\ valid_dirs_df.kind = "strings"
    /\ valid_dirs_df.rows = cache.rows


(***************************************************************************)
(* Copier claims                                                           *)
(***************************************************************************)

\* The .trc files under the root that open with the codec and sample above
\* 1000 Hz.
QualifyingSources ==
    { f \in src_files :
        /\ f.parts[Len(f.parts)][Len(f.parts[Len(f.parts)])] = ".trc"
        /\ f.codec # "openfail"
        /\ f.sfreq > 1000 }

\* {parent directory name}_{file name}, every space replaced by an underscore.
ExpectedName(parts) ==
    LET name == parts[Len(parts) - 1] \o <<"_">> \o parts[Len(parts)]
    IN  [i \in 1..Len(name) |-> IF name[i] = " " THEN "_" ELSE name[i]]

\* C3: when the first run on an empty output directory has completed, the
\* output directory holds, for every qualifying file at any depth under the
\* root, a file named {parent directory name}_{file name} with spaces
\* replaced by underscores.
C3_EveryQualifyingFileCopied ==
    (c_pc = "done" /\ c_run = 1) =>
        \A f \in QualifyingSources :
            \E o \in out_files : o.path = data_out_path \o <<ExpectedName(f.parts)>>

\* C7: in a run that follows completed runs only, no step changes the output
\* directory: no file is added, removed or rewritten.
C7_SecondRunChangesNothing ==
    [][ (c_run >= 2 /\ n_kills = 0) =>
            (out_files' = out_files /\ out_dirs' = out_dirs) ]_vars

\* C7 witness: a second run after a completed first run has returned, having
\* found the destinations of two qualifying files in place.
C7_Witness ==
    /\ c_pc = "done"
    /\ c_run = 2
    /\ n_kills = 0
    /\ processed_files_nr = 2
    /\ out_files # {}
    /\ \A o \in out_files : o.complete

\* C8: in runs that were never interrupted, whatever file occupies the
\* destination path of a qualifying source file the loop has visited is the
\* copy of that very source file: no two qualifying files share a
\* destination, none is skipped for the copy of another.
C8_DestinationInjective ==
    (n_kills = 0 /\ c_pc \in {"pass2", "copying", "done"}) =>
        \A f \in QualifyingSources \ c_todo :
            PartsReadable(f.parts) =>
                \A o \in out_files :
                    (o.path = NewFpath(data_out_path, f.parts)) => (o.src = f.parts)

\* C10: when a run has completed, whether or not earlier runs were
\* interrupted, every file of the output directory is a complete copy of its
\* source.
C10_NoPartialFileAfterRerun ==
    c_pc = "done" => \A o \in out_files : o.complete

=============================================================================
